---- MODULE Spec2Model ----
(***************************************************************************)
(* SuperStore KPI dashboard (app.py): one Streamlit script rerun from top  *)
(* to bottom on every widget change.  A behaviour of this module is a      *)
(* session: the first run of the script with every widget at its default,  *)
(* then one rerun per widget change.  Each action is one whole run of the   *)
(* script: load_data(), the four cascading multiselect filters, the date   *)
(* range filter, the KPI calculations and, when the working dataset is not *)
(* empty, the time-series and categorical aggregations.                    *)
(*                                                                         *)
(* Numbers: pandas works in float64; the model computes the same           *)
(* expressions over exact rationals [n, d] (d > 0, lowest terms), with     *)
(* NaN == [n |-> 0, d |-> 0] and a division by zero giving [n |-> s, d |->  *)
(* 0] (inf).  Dates are days since 2023-01-01 (a Sunday).  A dataframe is  *)
(* the set of its rows, each row carrying its index label `id`; row order  *)
(* is not modelled.  The spreadsheet holds at least one row and does not   *)
(* change during a session, and the st.cache_data entry is never cleared.  *)
(***************************************************************************)
EXTENDS Integers, Sequences, FiniteSets, TLC

\* ----------------------------------------------------------------- bounds

\* Largest number of rows of the source spreadsheet.
MaxRows == 2

\* ------------------------------------------------------------ rationals

NaN == [n |-> 0, d |-> 0]
Zero == [n |-> 0, d |-> 1]

Abs(x) == IF x < 0 THEN 0 - x ELSE x

RECURSIVE GCD(_, _)
GCD(a, b) == IF b = 0 THEN a ELSE GCD(b, a % b)

IsNaN(x) == x.d = 0 /\ x.n = 0
IsFinite(x) == x.d # 0

\* n/d in lowest terms; d = 0 is a float division by zero (nan or +-inf).
Rat(n, d) ==
    IF d = 0 THEN [n |-> IF n = 0 THEN 0 ELSE IF n < 0 THEN 0 - 1 ELSE 1, d |-> 0]
    ELSE LET g == GCD(Abs(n), Abs(d))
             s == IF d < 0 THEN 0 - 1 ELSE 1
         IN  [n |-> (s * n) \div g, d |-> (s * d) \div g]

Int2Rat(k) == [n |-> k, d |-> 1]

RAdd(x, y) ==
    IF x.d = 0 \/ y.d = 0 THEN NaN
    ELSE IF x.d = 1 /\ y.d = 1 THEN [n |-> x.n + y.n, d |-> 1]
    ELSE Rat(x.n * y.d + y.n * x.d, x.d * y.d)

\* float division x / y
RDiv(x, y) ==
    IF x.d = 0 \/ y.d = 0 THEN NaN
    ELSE Rat(x.n * y.d, x.d * y.n)

\* ------------------------------------------------------------- calendar

\* Lengths of the months of 2023, the year the modelled dates fall in.
MonthLengths == <<31, 28, 31, 30, 31, 30, 31, 31, 30, 31, 30, 31>>

RECURSIVE MonthFrom(_, _)
MonthFrom(day, m) ==
    IF m >= Len(MonthLengths) \/ day < MonthLengths[m] THEN m
    ELSE MonthFrom(day - MonthLengths[m], m + 1)

\* Calendar month (1 = January 2023) of a day.
MonthOf(day) == MonthFrom(day, 1)

RECURSIVE MonthEnd(_)
\* Last day of calendar month m: the label pandas gives a "M" bin.
MonthEnd(m) == IF m = 0 THEN 0 - 1 ELSE MonthEnd(m - 1) + MonthLengths[m]

\* The Sunday closing the Monday..Sunday week of a day: the label of its "W"
\* (W-SUN) bin.  Day 0 is a Sunday.
WeekEnd(day) == day + ((7 - (day % 7)) % 7)

\* Position of the day's period on the calendar, per aggregation level.
PeriodOf(level, day) ==
    CASE level = "Daily" -> day
      [] level = "Weekly" -> WeekEnd(day) \div 7
      [] OTHER -> MonthOf(day)

\* ------------------------------------------------------------ dataframes

NULL == "<NA>"

RECURSIVE SumInt(_, _)
\* df[col].sum() of an integer column
SumInt(df, col) ==
    IF df = {} THEN 0
    ELSE LET r == CHOOSE x \in df : TRUE IN r[col] + SumInt(df \ {r}, col)

RECURSIVE SumRat(_, _)
SumRat(df, col) ==
    IF df = {} THEN Zero
    ELSE LET r == CHOOSE x \in df : TRUE IN RAdd(r[col], SumRat(df \ {r}, col))

\* df[col].mean(): NaN on no rows
Mean(df, col) ==
    IF df = {} THEN NaN ELSE RDiv(SumRat(df, col), Int2Rat(Cardinality(df)))

MinDate(df) == CHOOSE d \in {r.OrderDate : r \in df} : \A r \in df : d <= r.OrderDate
MaxDate(df) == CHOOSE d \in {r.OrderDate : r \in df} : \A r \in df : d >= r.OrderDate

\* --------------------------------------------------------------- inputs

\* Rows a source spreadsheet is drawn from.  Row 2 is given away at a loss
\* (Sales 0, Profit # 0) and differs from row 1 in every dimension; row 3 has
\* no Region; row 4 is a return of row 1's product that cancels its sales.
\* The dates are 2023-01-31, 02-01, 02-05 (a Sunday) and 03-01.
RowPool ==
    { [id |-> 1, Region |-> "East", State |-> "New York", Category |-> "Furniture",
       SubCategory |-> "Chairs", ProductName |-> "Chair", OrderDate |-> 30,
       Sales |-> 100, Quantity |-> 2, Profit |-> 10, Discount |-> Rat(0, 1)],
      [id |-> 2, Region |-> "West", State |-> "California", Category |-> "Technology",
       SubCategory |-> "Phones", ProductName |-> "Phone", OrderDate |-> 31,
       Sales |-> 0, Quantity |-> 1, Profit |-> 0 - 5, Discount |-> Rat(1, 1)],
      [id |-> 3, Region |-> NULL, State |-> "New York", Category |-> "Furniture",
       SubCategory |-> "Chairs", ProductName |-> "Chair", OrderDate |-> 35,
       Sales |-> 50, Quantity |-> 1, Profit |-> 5, Discount |-> Rat(1, 5)],
      [id |-> 4, Region |-> "East", State |-> "New York", Category |-> "Furniture",
       SubCategory |-> "Chairs", ProductName |-> "Chair", OrderDate |-> 59,
       Sales |-> 0 - 100, Quantity |-> 0 - 2, Profit |-> 0 - 30, Discount |-> Rat(0, 1)] }

\* The spreadsheets "Sample - Superstore-1.xlsx" may hold: not empty.
Spreadsheets == {s \in SUBSET RowPool : Cardinality(s) \in 1..MaxRows}

\* Days the user picks in a date_input.
DateChoices == {r.OrderDate : r \in RowPool}

AggLevels == {"Daily", "Weekly", "Monthly"}
kpi_options == {"Sales", "Quantity", "Profit", "Margin Rate", "Avg Discount"}

\* ---------------------------------------------------------------- state

VARIABLES
    file,                   \* content of the spreadsheet on disk
    cache,                  \* st.cache_data entry of load_data
    file_reads,             \* how many times pd.read_excel ran
    df_original,
    agg_level,
    all_regions, selected_regions, df_by_region,
    all_states, selected_states, df_by_state,
    all_categories, selected_categories, df_by_category,
    all_subcategories, selected_subcategories, df_filtered,
    date_bounds,            \* branch of the min_date/max_date if: "filtered" or "original"
    min_date, max_date, from_date, to_date,
    date_error,             \* st.sidebar.error shown
    df,
    total_sales, total_quantity, total_profit, margin_rate, avg_discount,
    view,                   \* "none" before the first run, then "no_data" or "charts"
    selected_kpi, rolling_window, df_agg,
    product_grouped, region_grouped, df_monthly, category_profit,
    profit_margin,          \* the "Profit Margin" column added to df
    subcat_sales

loader == <<file, cache, file_reads, df_original>>
sidebar == <<agg_level, all_regions, selected_regions, df_by_region, all_states,
             selected_states, df_by_state, all_categories, selected_categories,
             df_by_category, all_subcategories, selected_subcategories, df_filtered,
             date_bounds, min_date, max_date, from_date, to_date, date_error>>
kpis == <<df, total_sales, total_quantity, total_profit, margin_rate, avg_discount>>
charts == <<view, selected_kpi, rolling_window, df_agg, product_grouped,
            region_grouped, df_monthly, category_profit, profit_margin, subcat_sales>>
vars == <<loader, sidebar, kpis, charts>>

\* --------------------------------------------------------------- loader

NotLoaded == [loaded |-> FALSE, value |-> {}]

\* load_data without the memo: every call reads the spreadsheet again.
load_data_uncached ==
    [df |-> file, cache |-> [loaded |-> TRUE, value |-> file],
     reads |-> file_reads + 1]

\* @st.cache_data load_data(): the first call reads the spreadsheet and
\* memoizes the frame; a call that finds the entry returns it without reading.
load_data ==
    IF cache.loaded
    THEN [df |-> cache.value, cache |-> cache, reads |-> file_reads]
    ELSE [df |-> file, cache |-> [loaded |-> TRUE, value |-> file],
          reads |-> file_reads + 1]

\* ------------------------------------------------------- filter pipeline

\* The options without dropna(): a missing value is offered too.
OptionsKeepNull(frame, col) == {r[col] : r \in frame}

\* The options taken from the unfiltered source instead of the narrowed frame.
OptionsFromSource(frame, col) == {r[col] : r \in file} \ {NULL}

\* sorted(frame[col].dropna().unique()), as the set of its values
Options(frame, col) == {r[col] : r \in frame} \ {NULL}

\* The filter applied to the source frame instead of the previous stage's.
CategoricalFilterFromSource(frame, col, selected) ==
    IF selected # {} THEN {r \in file : r[col] \in selected} ELSE frame

\* The filter without its "if selected": nothing selected keeps nothing.
CategoricalFilterNoneOnEmpty(frame, col, selected) ==
    {r \in frame : r[col] \in selected}

\* frame[frame[col].isin(selected)] if selected else frame
CategoricalFilter(frame, col, selected) ==
    IF selected # {} THEN {r \in frame : r[col] \in selected} ELSE frame

\* st.sidebar.multiselect(options=options, default=options): the value the
\* session holds for the widget while its options are those it was drawn
\* with, otherwise the default, every option.
Multiselect(drawn, old_options, old_value, options) ==
    IF drawn /\ old_options = options THEN old_value ELSE options

\* if not df_filtered.empty: ... else: ...
DateBounds(filtered, original) ==
    IF filtered # {}
    THEN [branch |-> "filtered", min |-> MinDate(filtered), max |-> MaxDate(filtered)]
    ELSE [branch |-> "original", min |-> MinDate(original), max |-> MaxDate(original)]

\* st.sidebar.date_input(value=default, min_value=lo, max_value=hi): the held
\* value while the widget is drawn with the same bounds, else the default.
DateInput(drawn, old_lo, old_hi, old_value, lo, hi, default) ==
    IF drawn /\ old_lo = lo /\ old_hi = hi THEN old_value ELSE default

\* The check followed by st.stop(): an invalid range ends the run.
DateRangeCheckStop(from, to) == [error |-> from > to, stop |-> from > to]

\* if from_date > to_date: st.sidebar.error(...): the run goes on.
DateRangeCheck(from, to) == [error |-> from > to, stop |-> FALSE]

\* df_filtered[(Order Date >= from) & (Order Date <= to)].copy()
DateRangeFilter(frame, from, to) ==
    {r \in frame : r.OrderDate >= from /\ r.OrderDate <= to}

\* ------------------------------------------------------- KPI calculations

\* The else branch alone, without the df.empty guard.
KpiUnguarded(frame) ==
    LET sales == SumInt(frame, "Sales")
        profit == SumInt(frame, "Profit")
    IN  [total_sales |-> sales,
         total_quantity |-> SumInt(frame, "Quantity"),
         total_profit |-> profit,
         margin_rate |-> IF sales # 0 THEN Rat(profit, sales) ELSE Zero,
         avg_discount |-> Mean(frame, "Discount")]

\* if df.empty: ... else: ...
KpiCalculations(frame) ==
    IF frame = {}
    THEN [total_sales |-> 0, total_quantity |-> 0, total_profit |-> 0,
          margin_rate |-> Zero, avg_discount |-> Zero]
    ELSE LET sales == SumInt(frame, "Sales")
             profit == SumInt(frame, "Profit")
         IN  [total_sales |-> sales,
              total_quantity |-> SumInt(frame, "Quantity"),
              total_profit |-> profit,
              margin_rate |-> IF sales # 0 THEN Rat(profit, sales) ELSE Zero,
              avg_discount |-> Mean(frame, "Discount")]

\* ------------------------------------------------- time-series aggregator

\* Label of the resample bin a day falls in: "D" the day, "W" the Sunday
\* closing its week, "M" the last day of its month.
BinLabel(level, day) ==
    CASE level = "Daily" -> day
      [] level = "Weekly" -> WeekEnd(day)
      [] OTHER -> MonthEnd(MonthOf(day))

NextLabel(level, label) ==
    CASE level = "Daily" -> label + 1
      [] level = "Weekly" -> label + 7
      [] OTHER -> MonthEnd(MonthOf(label) + 1)

RECURSIVE Spine(_, _, _)
\* The bin labels resample lays out, from the first row's bin to the last's.
Spine(level, label, last) ==
    IF label >= last THEN <<label>>
    ELSE <<label>> \o Spine(level, NextLabel(level, label), last)

\* agg_dict: Sales, Quantity, Profit "sum" (0 on no rows), Discount "mean"
Aggregate(rows) ==
    [Sales |-> Int2Rat(SumInt(rows, "Sales")),
     Quantity |-> Int2Rat(SumInt(rows, "Quantity")),
     Profit |-> Int2Rat(SumInt(rows, "Profit")),
     Discount |-> Mean(rows, "Discount")]

\* The table as a tuple of its rows, each computed once.
Rows(table) == SubSeq(table, 1, Len(table))

\* One row of the resampled table: the bin's label and its aggregates.
Bucket(frame, level, label) ==
    CHOOSE row \in
        { [OrderDate |-> label] @@ Aggregate(rows)
          : rows \in {{r \in frame : BinLabel(level, r.OrderDate) = label}} } : TRUE

\* A groupby on the bin label instead of a resample: populated bins only.
ResamplePopulated(frame, level) ==
    LET labels == Spine(level, BinLabel(level, MinDate(frame)),
                        BinLabel(level, MaxDate(frame)))
        populated == SelectSeq(labels,
                        LAMBDA l : \E r \in frame : BinLabel(level, r.OrderDate) = l)
    IN  Rows([i \in 1..Len(populated) |-> Bucket(frame, level, populated[i])])

\* df_sorted.resample(rule).agg(agg_dict).reset_index()
Resample(frame, level) ==
    CHOOSE table \in
        { Rows([i \in 1..Len(labels) |-> Bucket(frame, level, labels[i])])
          : labels \in {Spine(level, BinLabel(level, MinDate(frame)),
                              BinLabel(level, MaxDate(frame)))} } : TRUE

RollingWindow(level) ==
    CASE level = "Daily" -> 30
      [] level = "Weekly" -> 4
      [] OTHER -> 3

\* Series.replace(0, 1)
Replace01(x) == IF x = Zero THEN Int2Rat(1) ELSE x

\* table["Profit"] / table["Sales"].replace(0, 1), for one row of the table
MarginRateColumn(row) == RDiv(row.Profit, Replace01(row.Sales))

RECURSIVE WindowSum(_, _, _, _)
WindowSum(table, col, lo, hi) ==
    IF lo > hi THEN Zero ELSE RAdd(table[lo][col], WindowSum(table, col, lo + 1, hi))

\* rolling(window=w, min_periods=1): the mean of whatever values the window has.
RollingMeanMinPeriods1(table, col, w, i) ==
    LET lo == IF i - w + 1 < 1 THEN 1 ELSE i - w + 1
        valid == {j \in lo..i : IsFinite(table[j][col])}
        total == WindowSum([j \in lo..i |->
                               IF j \in valid THEN table[j]
                               ELSE [table[j] EXCEPT ![col] = Zero]], col, lo, i)
    IN  IF valid = {} THEN NaN ELSE RDiv(total, Int2Rat(Cardinality(valid)))

\* table[col].rolling(window=w).mean() at position i (min_periods = w: NaN
\* until w values are in the window, and while one of them is NaN)
RollingMean(table, col, w, i) ==
    IF i < w THEN NaN
    ELSE IF \E j \in (i - w + 1)..i : ~IsFinite(table[j][col]) THEN NaN
    ELSE RDiv(WindowSum(table, col, i - w + 1, i), Int2Rat(w))

\* table["Margin Rate"] = ...; table["Avg Discount"] = table["Discount"]
Derived(table) ==
    Rows([i \in DOMAIN table |->
             table[i] @@ ("Margin Rate" :> MarginRateColumn(table[i]))
                      @@ ("Avg Discount" :> table[i].Discount)])

\* table["Rolling_Avg_" + kpi] = table[kpi].rolling(window=w).mean()
WithRollingAvg(table, kpi, w) ==
    Rows([i \in DOMAIN table |->
             table[i] @@ ("Rolling_Avg" :> RollingMean(table, kpi, w, i))])

\* df_agg, from the resample to its last derived column
TimeSeries(frame, level, kpi) ==
    CHOOSE result \in
        { WithRollingAvg(derived, kpi, RollingWindow(level)) :
            derived \in { Derived(agg) : agg \in {Resample(frame, level)} } } : TRUE

\* df_monthly
MonthlyInsight(frame) ==
    CHOOSE result \in
        { Rows([i \in DOMAIN agg |->
                   agg[i] @@ ("Margin Rate" :> MarginRateColumn(agg[i]))])
          : agg \in {Resample(frame, "Monthly")} } : TRUE

\* ------------------------------------------------ categorical aggregators

\* df.groupby("Product Name").agg(agg_dict) with its derived columns; groupby
\* leaves out a null key.  head(10) of the sorted table keeps every group
\* while there are at most ten.
ProductGrouped(frame) ==
    { LET g == Aggregate({r \in frame : r.ProductName = name})
      IN  [ProductName |-> name] @@ g @@ ("Margin Rate" :> MarginRateColumn(g))
                                 @@ ("Avg Discount" :> g.Discount)
      : name \in Options(frame, "ProductName") }

\* df.groupby(col)[value].sum()
GroupSum(frame, col, value) ==
    { [key |-> k, sum |-> SumInt({r \in frame : r[col] = k}, value)]
      : k \in Options(frame, col) }

\* df.apply(lambda row: row["Profit"] / row["Sales"] if row["Sales"] != 0 else 0)
ProfitMargin(frame) ==
    { [id |-> r.id,
       value |-> IF r.Sales # 0 THEN Rat(r.Profit, r.Sales) ELSE Zero]
      : r \in frame }

\* ------------------------------------------------------- the script run

\* What the session holds for the widgets when a run starts.
Held ==
    [drawn |-> view # "none", agg_level |-> agg_level,
     all_regions |-> all_regions, selected_regions |-> selected_regions,
     all_states |-> all_states, selected_states |-> selected_states,
     all_categories |-> all_categories, selected_categories |-> selected_categories,
     all_subcategories |-> all_subcategories,
     selected_subcategories |-> selected_subcategories,
     min_date |-> min_date, max_date |-> max_date,
     from_date |-> from_date, to_date |-> to_date,
     kpi_drawn |-> view = "charts", selected_kpi |-> selected_kpi]

\* One run of app.py, top to bottom, with the widget values `held`.  Each
\* \E x \in {e} names the value of e once, as the script's assignment does.
Script(held) ==
    \E loaded \in {load_data} :
    \E original \in {loaded.df} :
    \E regions_opts \in {Options(original, "Region")} :
    \E regions \in {Multiselect(held.drawn, held.all_regions,
                                held.selected_regions, regions_opts)} :
    \E by_region \in {CategoricalFilter(original, "Region", regions)} :
    \E states_opts \in {Options(by_region, "State")} :
    \E states \in {Multiselect(held.drawn, held.all_states,
                               held.selected_states, states_opts)} :
    \E by_state \in {CategoricalFilter(by_region, "State", states)} :
    \E categories_opts \in {Options(by_state, "Category")} :
    \E categories \in {Multiselect(held.drawn, held.all_categories,
                                   held.selected_categories, categories_opts)} :
    \E by_category \in {CategoricalFilter(by_state, "Category", categories)} :
    \E subcategories_opts \in {Options(by_category, "SubCategory")} :
    \E subcategories \in {Multiselect(held.drawn, held.all_subcategories,
                                      held.selected_subcategories,
                                      subcategories_opts)} :
    \E filtered \in {CategoricalFilter(by_category, "SubCategory", subcategories)} :
    \E bounds \in {DateBounds(filtered, original)} :
    \E from \in {DateInput(held.drawn, held.min_date, held.max_date, held.from_date,
                           bounds.min, bounds.max, bounds.min)} :
    \E to \in {DateInput(held.drawn, held.min_date, held.max_date, held.to_date,
                         bounds.min, bounds.max, bounds.max)} :
    \E check \in {DateRangeCheck(from, to)} :
    \E working \in {IF check.stop THEN {} ELSE DateRangeFilter(filtered, from, to)} :
    \E kpi \in {KpiCalculations(working)} :
    \E shown \in {IF check.stop THEN "stopped"
                  ELSE IF working = {} THEN "no_data" ELSE "charts"} :
    \E metric \in {IF shown # "charts" THEN "none"
                   ELSE IF held.kpi_drawn THEN held.selected_kpi ELSE "Sales"} :
    \E plot \in {shown = "charts"} :
        /\ cache' = loaded.cache
        /\ file_reads' = loaded.reads
        /\ file' = file
        /\ df_original' = original
        /\ agg_level' = held.agg_level
        /\ all_regions' = regions_opts
        /\ selected_regions' = regions
        /\ df_by_region' = by_region
        /\ all_states' = states_opts
        /\ selected_states' = states
        /\ df_by_state' = by_state
        /\ all_categories' = categories_opts
        /\ selected_categories' = categories
        /\ df_by_category' = by_category
        /\ all_subcategories' = subcategories_opts
        /\ selected_subcategories' = subcategories
        /\ df_filtered' = filtered
        /\ date_bounds' = bounds.branch
        /\ min_date' = bounds.min
        /\ max_date' = bounds.max
        /\ from_date' = from
        /\ to_date' = to
        /\ date_error' = check.error
        /\ df' = working
        /\ total_sales' = kpi.total_sales
        /\ total_quantity' = kpi.total_quantity
        /\ total_profit' = kpi.total_profit
        /\ margin_rate' = kpi.margin_rate
        /\ avg_discount' = kpi.avg_discount
        /\ view' = shown
        /\ selected_kpi' = metric
        /\ rolling_window' = IF plot THEN RollingWindow(held.agg_level) ELSE 0
        /\ df_agg' = IF plot THEN TimeSeries(working, held.agg_level, metric) ELSE <<>>
        /\ product_grouped' = IF plot THEN ProductGrouped(working) ELSE {}
        /\ region_grouped' = IF plot THEN GroupSum(working, "Region", "Sales") ELSE {}
        /\ df_monthly' = IF plot THEN MonthlyInsight(working) ELSE <<>>
        /\ category_profit' = IF plot THEN GroupSum(working, "Category", "Profit") ELSE {}
        /\ profit_margin' = IF plot THEN ProfitMargin(working) ELSE {}
        /\ subcat_sales' = IF plot THEN GroupSum(working, "SubCategory", "Sales") ELSE {}

\* ---------------------------------------------------------------- actions

Init ==
    /\ file \in Spreadsheets
    /\ cache = NotLoaded
    /\ file_reads = 0
    /\ df_original = {}
    /\ agg_level = "Monthly"
    /\ all_regions = {} /\ selected_regions = {} /\ df_by_region = {}
    /\ all_states = {} /\ selected_states = {} /\ df_by_state = {}
    /\ all_categories = {} /\ selected_categories = {} /\ df_by_category = {}
    /\ all_subcategories = {} /\ selected_subcategories = {} /\ df_filtered = {}
    /\ date_bounds = "none"
    /\ min_date = 0 /\ max_date = 0 /\ from_date = 0 /\ to_date = 0
    /\ date_error = FALSE
    /\ df = {}
    /\ total_sales = 0 /\ total_quantity = 0 /\ total_profit = 0
    /\ margin_rate = Zero /\ avg_discount = Zero
    /\ view = "none"
    /\ selected_kpi = "none"
    /\ rolling_window = 0
    /\ df_agg = <<>>
    /\ product_grouped = {} /\ region_grouped = {}
    /\ df_monthly = <<>>
    /\ category_profit = {} /\ profit_margin = {} /\ subcat_sales = {}

\* The page is opened: the first run, every widget at its default.
FirstRun ==
    /\ view = "none"
    /\ Script(Held)

ChangeAggLevel ==
    /\ view # "none"
    /\ \E level \in AggLevels \ {agg_level} :
          Script([Held EXCEPT !.agg_level = level])

ChangeRegions ==
    /\ view # "none"
    /\ \E selected \in (SUBSET all_regions) \ {selected_regions} :
          Script([Held EXCEPT !.selected_regions = selected])

ChangeStates ==
    /\ view # "none"
    /\ \E selected \in (SUBSET all_states) \ {selected_states} :
          Script([Held EXCEPT !.selected_states = selected])

ChangeCategories ==
    /\ view # "none"
    /\ \E selected \in (SUBSET all_categories) \ {selected_categories} :
          Script([Held EXCEPT !.selected_categories = selected])

ChangeSubCategories ==
    /\ view # "none"
    /\ \E selected \in (SUBSET all_subcategories) \ {selected_subcategories} :
          Script([Held EXCEPT !.selected_subcategories = selected])

ChangeFromDate ==
    /\ view # "none"
    /\ \E day \in (DateChoices \cap min_date..max_date) \ {from_date} :
          Script([Held EXCEPT !.from_date = day])

ChangeToDate ==
    /\ view # "none"
    /\ \E day \in (DateChoices \cap min_date..max_date) \ {to_date} :
          Script([Held EXCEPT !.to_date = day])

\* The KPI radio exists only on a page that shows the charts.
ChangeKpi ==
    /\ view = "charts"
    /\ \E kpi \in kpi_options \ {selected_kpi} :
          Script([Held EXCEPT !.selected_kpi = kpi])

Next ==
    \/ FirstRun
    \/ ChangeAggLevel
    \/ ChangeRegions
    \/ ChangeStates
    \/ ChangeCategories
    \/ ChangeSubCategories
    \/ ChangeFromDate
    \/ ChangeToDate
    \/ ChangeKpi

Spec == Init /\ [][Next]_vars

\* --------------------------------------------------------------- claims

Ran == view # "none"

\* Rows of the working dataset that fall in the i-th calendar period after the
\* one holding its earliest order date.
RowsOfPeriod(level, i) ==
    {r \in df : PeriodOf(level, r.OrderDate) = PeriodOf(level, MinDate(df)) + i - 1}

RECURSIVE MetricTotal(_, _, _)
\* Sum of a column over a set of positions of a table.
MetricTotal(table, col, positions) ==
    IF positions = {} THEN Zero
    ELSE LET j == CHOOSE x \in positions : TRUE
         IN  RAdd(table[j][col], MetricTotal(table, col, positions \ {j}))

\* C1: the margin rate is exactly 0 wherever the sales it is divided by is 0:
\* the KPI total, every bucket of the time series and of the monthly insight
\* table, every product group, every transaction of the discount-vs-margin
\* table.
C1_MarginRateZeroWhenSalesZero ==
    Ran =>
        /\ total_sales = 0 => margin_rate = Zero
        /\ \A i \in DOMAIN df_agg :
              df_agg[i].Sales = Zero => df_agg[i]["Margin Rate"] = Zero
        /\ \A i \in DOMAIN df_monthly :
              df_monthly[i].Sales = Zero => df_monthly[i]["Margin Rate"] = Zero
        /\ \A g \in product_grouped : g.Sales = Zero => g["Margin Rate"] = Zero
        /\ view = "charts" =>
              \A r \in df : r.Sales = 0 =>
                 \E m \in profit_margin : m.id = r.id /\ m.value = Zero

\* C1, the part the code keeps: the KPI total and the per-transaction margin
\* are 0 on zero sales, and no margin rate anywhere is a division by zero.
C1_ScalarMarginGuarded ==
    Ran =>
        /\ total_sales = 0 => margin_rate = Zero
        /\ IsFinite(margin_rate)
        /\ \A i \in DOMAIN df_agg : IsFinite(df_agg[i]["Margin Rate"])
        /\ \A g \in product_grouped : IsFinite(g["Margin Rate"])
        /\ \A m \in profit_margin : IsFinite(m.value)

\* C1: a bucket or product group whose summed Sales is 0 and summed Profit is
\* not is on the charts page.
C1_ZeroSalesGroupShown ==
    /\ view = "charts"
    /\ \E g \in product_grouped : g.Sales = Zero /\ g.Profit # Zero
    /\ \E i \in DOMAIN df_agg : df_agg[i].Sales = Zero /\ df_agg[i].Profit # Zero

\* C2 as stated: the number of buckets of the time series is the number of
\* calendar periods of the aggregation level spanned by [from_date, to_date].
C2_BucketsSpanSelectedRange ==
    view = "charts" =>
        Len(df_agg) = PeriodOf(agg_level, to_date) - PeriodOf(agg_level, from_date) + 1

\* C2 amended: the number of buckets is the number of calendar periods from
\* the one holding the earliest order date of the working dataset to the one
\* holding its latest; the i-th bucket sums the rows of the i-th of these
\* periods, and a period without rows is present with sums 0 and an undefined
\* mean discount.
C2_BucketsSpanWorkingDataset ==
    view = "charts" =>
        /\ Len(df_agg) = PeriodOf(agg_level, MaxDate(df))
                           - PeriodOf(agg_level, MinDate(df)) + 1
        /\ Len(df_monthly) = MonthOf(MaxDate(df)) - MonthOf(MinDate(df)) + 1
        /\ \A i \in DOMAIN df_agg :
              LET rows == RowsOfPeriod(agg_level, i)
              IN  /\ df_agg[i].Sales = Int2Rat(SumInt(rows, "Sales"))
                  /\ df_agg[i].Quantity = Int2Rat(SumInt(rows, "Quantity"))
                  /\ df_agg[i].Profit = Int2Rat(SumInt(rows, "Profit"))
                  /\ rows = {} =>
                        /\ df_agg[i].Sales = Zero
                        /\ df_agg[i].Quantity = Zero
                        /\ df_agg[i].Profit = Zero
                        /\ IsNaN(df_agg[i].Discount)
                  /\ rows # {} => IsFinite(df_agg[i].Discount)

\* C2: a weekly time series over a working dataset whose order dates lie
\* weeks apart: more buckets than rows, some of them without rows.
C2_EmptyBucketsOnTheSpine ==
    /\ view = "charts"
    /\ agg_level = "Weekly"
    /\ Cardinality(df) > 1
    /\ Len(df_agg) > Cardinality(df)
    /\ \E i \in DOMAIN df_agg : RowsOfPeriod(agg_level, i) = {}

\* C3: the window is 30 (Daily), 4 (Weekly), 3 (Monthly); the rolling average
\* of the selected metric is undefined at the first window-1 buckets and
\* wherever the window holds an undefined metric value, and is otherwise the
\* arithmetic mean of the metric over the window's buckets.
C3_RollingAverageIsTrailingMean ==
    view = "charts" =>
        /\ rolling_window = (CASE agg_level = "Daily" -> 30
                               [] agg_level = "Weekly" -> 4
                               [] agg_level = "Monthly" -> 3)
        /\ \A i \in DOMAIN df_agg :
              LET window == (i - rolling_window + 1)..i
                  avg == df_agg[i]["Rolling_Avg"]
              IN  IF i < rolling_window THEN IsNaN(avg)
                  ELSE IF \E j \in window : IsNaN(df_agg[j][selected_kpi])
                       THEN IsNaN(avg)
                  ELSE /\ IsFinite(avg)
                       /\ avg = RDiv(MetricTotal(df_agg, selected_kpi, window),
                                     Int2Rat(rolling_window))

\* C3: a bucket at or past position window-1 has a defined, non-zero rolling
\* average, and an earlier bucket has none.
C3_FullWindowAveraged ==
    /\ view = "charts"
    /\ \E i \in DOMAIN df_agg :
          /\ i >= rolling_window
          /\ IsFinite(df_agg[i]["Rolling_Avg"])
          /\ df_agg[i]["Rolling_Avg"] # Zero
    /\ IsNaN(df_agg[1]["Rolling_Avg"])

\* C4: whenever the working dataset is empty the run ends on the "no data"
\* page with the five KPIs at 0 and none of the time-series or categorical
\* tables built.
C4_EmptyDatasetZeroKpisNoCharts ==
    (Ran /\ df = {}) =>
        /\ view = "no_data"
        /\ total_sales = 0 /\ total_quantity = 0 /\ total_profit = 0
        /\ margin_rate = Zero /\ avg_discount = Zero
        /\ df_agg = <<>> /\ df_monthly = <<>>
        /\ product_grouped = {} /\ region_grouped = {}
        /\ category_profit = {} /\ subcat_sales = {} /\ profit_margin = {}
        /\ selected_kpi = "none"

\* C4: the working dataset is empty although the date range is valid and the
\* categorical filters left rows.
C4_EmptyByValidDateRange ==
    /\ view = "no_data"
    /\ df = {}
    /\ df_filtered # {}
    /\ ~date_error

\* C5: each filter stage (region, state, category, sub-category, date range)
\* gives a subset of its input, so the working dataset is a subset of the
\* source and the row count never grows from a stage to the next.
C5_StagesOnlyNarrow ==
    Ran =>
        /\ df_by_region \subseteq df_original
        /\ df_by_state \subseteq df_by_region
        /\ df_by_category \subseteq df_by_state
        /\ df_filtered \subseteq df_by_category
        /\ df \subseteq df_filtered
        /\ df \subseteq file
        /\ Cardinality(df_by_region) <= Cardinality(df_original)
        /\ Cardinality(df_by_state) <= Cardinality(df_by_region)
        /\ Cardinality(df_by_category) <= Cardinality(df_by_state)
        /\ Cardinality(df_filtered) <= Cardinality(df_by_category)
        /\ Cardinality(df) <= Cardinality(df_filtered)

\* C5: the state filter drops a row the region filter kept.
C5_StateStageNarrows ==
    /\ Ran
    /\ df_by_region = df_original
    /\ Cardinality(df_by_state) < Cardinality(df_by_region)
    /\ df # {}

\* The rows of `input` a stage with the selection `selected` on `col` keeps,
\* according to C6.
StageKeeps(input, output, col, selected) ==
    /\ selected = {} => output = input
    /\ selected # {} =>
          /\ output \subseteq input
          /\ \A r \in input : r \in output <=> r[col] \in selected

\* C6: in each categorical dimension an empty selection leaves the stage's
\* input unchanged, and a non-empty one keeps exactly the input rows whose
\* value in that column is selected.
C6_EmptySelectionMeansAll ==
    Ran =>
        /\ StageKeeps(df_original, df_by_region, "Region", selected_regions)
        /\ StageKeeps(df_by_region, df_by_state, "State", selected_states)
        /\ StageKeeps(df_by_state, df_by_category, "Category", selected_categories)
        /\ StageKeeps(df_by_category, df_filtered, "SubCategory",
                      selected_subcategories)

\* C6: one dimension has nothing selected and keeps every row, another has a
\* selection that drops a row.
C6_EmptyAndNarrowingSelection ==
    /\ Ran
    /\ selected_regions = {} /\ df_by_region = df_original
    /\ Cardinality(df_original) > 1
    /\ selected_categories # {} /\ df_by_category # df_by_state

\* C7: with from_date > to_date the warning is shown, the date-range filter
\* is still applied (and keeps nothing), and the run goes on to the KPI
\* calculations, which give zeros on the "no data" page.
C7_InvalidRangeIsNotFatal ==
    Ran =>
        /\ date_error <=> from_date > to_date
        /\ df = {r \in df_filtered : from_date <= r.OrderDate /\ r.OrderDate <= to_date}
        /\ date_error =>
              /\ df = {}
              /\ view = "no_data"
              /\ total_sales = 0 /\ total_quantity = 0 /\ total_profit = 0
              /\ margin_rate = Zero /\ avg_discount = Zero

\* C7: a run with from_date > to_date over a non-empty filtered dataset.
C7_InvalidRangeRun ==
    /\ Ran
    /\ from_date > to_date
    /\ date_error
    /\ df_filtered # {}

\* The working dataset as the current selection alone determines it.
SelectedRows ==
    {r \in file :
        /\ selected_regions = {} \/ r.Region \in selected_regions
        /\ selected_states = {} \/ r.State \in selected_states
        /\ selected_categories = {} \/ r.Category \in selected_categories
        /\ selected_subcategories = {} \/ r.SubCategory \in selected_subcategories
        /\ from_date <= r.OrderDate /\ r.OrderDate <= to_date}

\* C8: the spreadsheet is read by the first load_data() call only; every
\* later run gets the memoized frame, which no run changes (the Profit
\* Margin column goes to the working copy), so each run sees the frame first
\* loaded and its working dataset depends on the current selection alone.
C8_LoadedOnceAndNeverChanged ==
    [][ /\ file_reads' <= 1
        /\ cache.loaded => (cache' = cache /\ file_reads' = file_reads)
        /\ cache'.loaded /\ cache'.value = file
        /\ df_original' = cache'.value
        /\ df' = SelectedRows' ]_vars

\* C8: a third or later run has added the Profit Margin column to its
\* working dataset, after one read of the spreadsheet.
C8_LaterRunOnMemoizedFrame ==
    /\ view = "charts"
    /\ agg_level = "Daily"
    /\ selected_kpi = "Profit"
    /\ profit_margin # {}
    /\ file_reads = 1
    /\ df_original = file

\* C9: the options of each dimension are the distinct non-null values of its
\* column in the dataset narrowed by the filters before it: the source for
\* the regions, the region-filtered rows for the states, and so on.
C9_OptionsFromNarrowedDataset ==
    Ran =>
        /\ all_regions = {r.Region : r \in df_original} \ {NULL}
        /\ all_states = {r.State : r \in df_by_region} \ {NULL}
        /\ all_categories = {r.Category : r \in df_by_state} \ {NULL}
        /\ all_subcategories = {r.SubCategory : r \in df_by_category} \ {NULL}

\* C9: the source has a row without Region, and the states offered are fewer
\* than the states of the source.
C9_NarrowedOptionsDiffer ==
    /\ Ran
    /\ \E r \in df_original : r.Region = NULL
    /\ all_states # {r.State : r \in df_original}
    /\ all_categories # {r.Category : r \in df_original}

\* C10: with a non-empty source and every selection among the options
\* offered, the four categorical filters leave rows, so the date bounds never
\* come from the full source and only the date range can empty the working
\* dataset.
C10_CategoricalFiltersLeaveRows ==
    (/\ Ran
     /\ df_original # {}
     /\ selected_regions \subseteq all_regions
     /\ selected_states \subseteq all_states
     /\ selected_categories \subseteq all_categories
     /\ selected_subcategories \subseteq all_subcategories) =>
        /\ df_by_region # {} /\ df_by_state # {} /\ df_by_category # {}
        /\ df_filtered # {}
        /\ date_bounds = "filtered"
        /\ min_date = MinDate(df_filtered) /\ max_date = MaxDate(df_filtered)

\* C10: a non-empty selection in every dimension leaves rows, and the date
\* range then empties the working dataset.
C10_OnlyDateRangeEmpties ==
    /\ Ran
    /\ selected_regions # {} /\ selected_regions \subseteq all_regions
    /\ selected_states # {} /\ selected_states \subseteq all_states
    /\ selected_categories # {} /\ selected_subcategories # {}
    /\ df_filtered # {}
    /\ date_bounds = "filtered"
    /\ df = {}

====
